---- MODULE Spec2Model ----
(***************************************************************************)
(* Model of api/index.py: the portal session cache (ensure_cache and       *)
(* init_portal_session_and_channels), the link resolver (create_link) and  *)
(* the three Flask handlers (index, playlist, getlink), run by concurrent  *)
(* request threads against a nondeterministic upstream portal.             *)
(*                                                                         *)
(* Strings are sequences of atoms.  An atom is a run of characters that    *)
(* the program never splits: the words "ffmpeg" and "ffrt", one blank " ", *)
(* and pieces of a URL.  "ffrt http://n/play" is <<"ffrt", " ",            *)
(* "http://n/play">>.  Python's None is the empty tuple, a value v that    *)
(* may be None is <<v>>.                                                   *)
(***************************************************************************)
EXTENDS Naturals, Integers, Sequences, FiniteSets, TLC

\* ---------------------------------------------------------------- bounds
\* Number of request threads (one inbound request each).
NumThreads == 2
\* Number of times the clock is advanced in a behaviour.
MaxTicks == 1

\* ------------------------------------------------------ program constants
CACHE_TTL == 300
retries == 3
PORTAL_TYPE == "1"

Threads == 1..NumThreads
NoThread == 0

None == <<>>
Some(v) == <<v>>
Val(o) == o[1]

\* ------------------------------------------------------- string helpers
\* s[i..] starts with pat
StartsAt(s, i, pat) ==
    /\ i + Len(pat) - 1 <= Len(s)
    /\ \A k \in 1..Len(pat) : s[i + k - 1] = pat[k]

\* Python: pat in s
Contains(s, pat) == \E i \in 1..(Len(s) + 1) : StartsAt(s, i, pat)

RECURSIVE ReplaceFrom(_, _, _)
ReplaceFrom(s, i, pat) ==
    IF i > Len(s) THEN <<>>
    ELSE IF StartsAt(s, i, pat) THEN ReplaceFrom(s, i + Len(pat), pat)
    ELSE <<s[i]>> \o ReplaceFrom(s, i + 1, pat)

\* Python: s.replace(pat, ""), non-overlapping occurrences left to right
Remove(s, pat) == ReplaceFrom(s, 1, pat)

RECURSIVE LStrip(_)
LStrip(s) == IF s # <<>> /\ Head(s) = " " THEN LStrip(Tail(s)) ELSE s

RECURSIVE RStrip(_)
RStrip(s) ==
    IF s # <<>> /\ s[Len(s)] = " " THEN RStrip(SubSeq(s, 1, Len(s) - 1)) ELSE s

\* Python: s.strip()
Strip(s) == RStrip(LStrip(s))

RECURSIVE Str(_)
\* Python: str(n) for a non-negative integer, as its decimal digits
Str(n) == IF n < 10 THEN <<n>> ELSE Str(n \div 10) \o <<n % 10>>

FFMPEG == <<"ffmpeg">>
FFMPEG_MARK == <<"ffmpeg", " ">>
FFRT_MARK == <<"ffrt", " ">>

\* ------------------------------------------------------------- upstream
\* Catalog entries the upstream can return.
News == [id |-> 5, name |-> "News", logo |-> "n.png",
         cmd |-> <<"ffrt", " ", "http://n/play">>]
Film == [id |-> 6, name |-> "Film", logo |-> "f.png",
         cmd |-> <<"ffmpeg", " ", "http://x/stream">>]
Tools == [id |-> 7, name |-> "Tools", logo |-> "t.png",
          cmd |-> <<"ffrt", " ", "http://n/", "ffmpeg", "/play">>]
Blank == [id |-> 8, name |-> "Blank", logo |-> "",
          cmd |-> <<" ">>]

Mute == [id |-> 4, name |-> "Mute", logo |-> "",
         cmd |-> <<>>]

NewsCatalog == <<News>>
FullCatalog == <<News, Film, Tools, Blank, Mute>>

\* Answers to the handshake POST: a token, a non-200 status, a 200 body
\* without a token, or a transport failure / timeout / undecodable body.
HandshakeReplies == {"token", "status", "notoken", "exception"}

\* Answers to the get_profile GET: a body containing "js", a body without
\* it, an error status (a falsy Response), or a transport failure.
ProfileReplies == {"js", "nojs", "status", "exception"}

\* Answers to the get_all_channels GET.
CatalogReplies ==
    { [kind |-> "data", data |-> c] : c \in {NewsCatalog, FullCatalog, <<>>} }
    \cup { [kind |-> k, data |-> <<>>] :
              k \in {"status", "nojs", "nodata", "notdict", "jsnotobject", "exception"} }

\* Answers to one create_link GET: a transport failure or undecodable body,
\* a non-200 status, a 200 body without a usable cmd, or a cmd.
LinkCmds == { <<"ffrt", " ", "http://n/play">>, <<"http://cdn/live">>, <<"ffrt", " ">> }
LinkReplies ==
    { [kind |-> k, cmd |-> <<>>] : k \in {"exception", "status", "nocmd"} }
    \cup { [kind |-> "cmd", cmd |-> c] : c \in LinkCmds }

\* Channel ids a client asks for.
RequestIds == {4, 5, 6, 7, 8, 9}

\* ---------------------------------------------------------------- state
VARIABLES
    cache,      \* _cache
    lock,       \* _lock: the thread holding it, or NoThread
    now,        \* time.time()
    pc,         \* position of each request thread
    loc,        \* locals of each request thread
    resp,       \* the HTTP response each thread gave, None while running
    upstream,   \* requests the upstream has received, per endpoint
    norm        \* a call of normalize_url_and_name and a call on its result

vars == <<cache, lock, now, pc, loc, resp, upstream, norm>>

EmptyCache ==
    [session |-> None, headers |-> None, channels |-> None,
     portal_name |-> None, expires |-> 0]

NoLocals ==
    [session |-> None, headers |-> None, channels |-> None,
     handler |-> "", ch_id |-> 0, ch |-> None, ch_by |-> 0, cmd |-> <<>>,
     arg_base |-> <<>>, arg_session |-> None, arg_headers |-> None,
     attempt |-> 0, reply |-> None, link |-> None, log |-> <<>>]

Init ==
    /\ cache = EmptyCache
    /\ lock = NoThread
    /\ now = 0
    /\ pc = [t \in Threads |-> "ensure"]
    /\ loc = [t \in Threads |-> NoLocals]
    /\ resp = [t \in Threads |-> None]
    /\ upstream = [handshake |-> 0, profile |-> 0, catalog |-> 0, create_link |-> 0]
    /\ norm = [input_url |-> <<>>, out |-> None, again |-> None]


\* --------------------------------------------------------- configuration
\* PORTAL_BASE_URL, the default of the source: http://tatatv.cc/stalker_portal/c/
PORTAL_BASE_URL ==
    <<"http://", "tatatv", ".", "cc", "/", "stalker_portal", "/", "c", "/">>

Schemes == {"http://", "https://"}

\* The netloc of a URL that starts with a scheme: the atoms after the scheme
\* up to the first "/", "?" or "#".
RECURSIVE UpToSlash(_)
UpToSlash(s) ==
    IF s = <<>> \/ Head(s) \in {"/", "?", "#"}
    THEN <<>> ELSE <<Head(s)>> \o UpToSlash(Tail(s))

Netloc(url) == UpToSlash(Tail(url))

\* The last two dot-separated labels of a netloc, joined; the whole netloc
\* without a dot.
RECURSIVE LastLabels(_)
LastLabels(n) ==
    LET dots == { i \in 1..Len(n) : n[i] = "." }
    IN  IF Cardinality(dots) <= 1 THEN SelectSeq(n, LAMBDA a : a # ".")
        ELSE LastLabels(Tail(n))

\* Python: str.lower(), atom by atom; the atoms with capitals are listed
LowerAtom(a) ==
    CASE a = "TataTV" -> "tatatv"
      [] a = "CC" -> "cc"
      [] a = "Example" -> "example"
      [] a = "COM" -> "com"
      [] a = "HTTP:" -> "http:"
      [] OTHER -> a

Lower(s) == [i \in 1..Len(s) |-> LowerAtom(s[i])]

\* a scheme test that never finds one
HasScheme_never(s) == FALSE

\* line 33: url.startswith("http://") or url.startswith("https://")
HasScheme(s) == s # <<>> /\ Head(s) \in Schemes

\* lines 35-36 on a URL without a netloc: urljoin gives "scheme:///" and
\* rstrip("/") leaves the scheme with its colon
SchemeOnly(scheme) == IF scheme = "https://" THEN "https:" ELSE "http:"

\* lines 31-41: the URL cut back to scheme and netloc, and the short name
normalize_url_and_name(input_url) ==
    LET stripped == Strip(input_url)
        url == IF HasScheme(stripped) THEN stripped ELSE <<"http://">> \o stripped
        root == IF Netloc(url) = <<>> THEN <<SchemeOnly(Head(url))>>
                ELSE <<Head(url)>> \o Netloc(url)
    IN  [url |-> root, name |-> Lower(LastLabels(Netloc(url)))]

\* The inputs of the normalizer: an optional scheme, an optional host, an
\* optional port, and a path, a query or nothing, with or without blanks
\* around them.
UrlSchemes == {<<>>, <<"http://">>, <<"https://">>, <<"HTTP:", "/", "/">>}
UrlHosts == {<<>>, <<"host">>, <<"example", ".", "com">>,
             <<"a", ".", "b", ".", "example", ".", "com">>,
             <<"Example", ".", "COM">>}
UrlPorts == {<<>>, <<":", "8080">>}
UrlPaths == {<<>>, <<"/">>, <<"/", "a", "/", "b">>, <<"?", "x=1">>}
UrlPads == {<<>>, <<" ">>}
UrlInputs ==
    { w \o sc \o h \o pt \o pa \o w :
        w \in UrlPads, sc \in UrlSchemes, h \in UrlHosts, pt \in UrlPorts,
        pa \in UrlPaths }

\* normalize_url_and_name is called on an input
NormalizeCall ==
    /\ norm.out = None
    /\ norm' = [norm EXCEPT !.out = Some(normalize_url_and_name(norm.input_url))]
    /\ UNCHANGED <<cache, lock, now, pc, loc, resp, upstream>>

\* normalize_url_and_name is called on the base URL it returned
NormalizeAgain ==
    /\ norm.out # None /\ norm.again = None
    /\ norm' = [norm EXCEPT !.again = Some(normalize_url_and_name(Val(norm.out).url))]
    /\ UNCHANGED <<cache, lock, now, pc, loc, resp, upstream>>

\* ---------------------------------------------------------- ensure_cache
\* a `with _lock:` that lets every thread in
CanAcquire_unlocked(t) == TRUE

\* `with _lock:` lets a thread in when no thread holds the lock
CanAcquire(t) == lock = NoThread

\* bool(_cache["channels"]): a non-empty list
Truthy(channels) == channels # None /\ Val(channels).data # <<>>

\* the fast-path condition of ensure_cache
CacheFresh == Truthy(cache.channels) /\ now < cache.expires

\* the headers dict init_portal_session_and_channels starts with
BaseHeaders(base_url) ==
    [Referer |-> base_url \o <<"/", "stalker_portal", "/", "c", "/">>,
     Authorization |-> None]

\* an exception leaves ensure_cache through `with _lock` and reaches the
\* handler's except clause, which answers 500 with the error text
ErrorResponse(err) ==
    [status |-> 500, location |-> <<>>, error |-> err, body |-> <<>>]

\* a failure path that tears the cache down
Raise_clearing(t, err) ==
    /\ pc' = [pc EXCEPT ![t] = "done"]
    /\ lock' = NoThread
    /\ resp' = [resp EXCEPT ![t] = Some(ErrorResponse(err))]
    /\ loc' = [loc EXCEPT ![t] = NoLocals]
    /\ cache' = [session |-> None, headers |-> None, channels |-> None,
                 portal_name |-> None, expires |-> 0]
    /\ UNCHANGED now

\* a failure path that keeps the lock
Raise_holding(t, err) ==
    /\ pc' = [pc EXCEPT ![t] = "done"]
    /\ resp' = [resp EXCEPT ![t] = Some(ErrorResponse(err))]
    /\ loc' = [loc EXCEPT ![t] = NoLocals]
    /\ UNCHANGED <<cache, lock, now>>

\* a failure path that marks the cache expired
Raise_expiring(t, err) ==
    /\ pc' = [pc EXCEPT ![t] = "done"]
    /\ lock' = NoThread
    /\ resp' = [resp EXCEPT ![t] = Some(ErrorResponse(err))]
    /\ loc' = [loc EXCEPT ![t] = NoLocals]
    /\ cache' = [cache EXCEPT !.expires = 0]
    /\ UNCHANGED now

\* a failure path on which the handler carries on with the cache as it is
Raise_continuing(t, err) ==
    /\ pc' = [pc EXCEPT ![t] = "ret"]
    /\ lock' = NoThread
    /\ loc' = [loc EXCEPT ![t] = NoLocals]
    /\ UNCHANGED <<cache, now, resp>>

Raise(t, err) ==
    /\ pc' = [pc EXCEPT ![t] = "done"]
    /\ lock' = NoThread
    /\ resp' = [resp EXCEPT ![t] = Some(ErrorResponse(err))]
    /\ loc' = [loc EXCEPT ![t] = NoLocals]
    /\ UNCHANGED <<cache, now>>

\* lines 115-119 and 73-88: take the lock, check the cache; on a miss build
\* the session and the headers and send the handshake POST
EnsureCacheEnter(t) ==
    /\ pc[t] = "ensure"
    /\ UNCHANGED norm
    /\ CanAcquire(t)
    /\ IF CacheFresh
       THEN /\ pc' = [pc EXCEPT ![t] = "ret"]
            /\ UNCHANGED <<cache, lock, now, loc, resp, upstream>>
       ELSE LET n == upstream.handshake + 1
                base == normalize_url_and_name(PORTAL_BASE_URL).url
            IN  /\ lock' = t
                /\ upstream' = [upstream EXCEPT !.handshake = n]
                /\ loc' = [loc EXCEPT ![t].session = Some(n),
                                      ![t].headers = Some(BaseHeaders(base))]
                /\ pc' = [pc EXCEPT ![t] = "hs_wait"]
                /\ UNCHANGED <<cache, now, resp>>

\* lines 89-90: the token of a handshake answer, None for a non-200 status
\* and for a body without one; a token is tagged with its handshake
Token(r, session) == IF r = "token" THEN session ELSE None

\* a token check that lets every answer pass
TokenOk_any(token) == TRUE

\* line 91: `if not token` raises
TokenOk(token) == token # None

\* lines 88-93: the handshake answer
Handshake(t, r) ==
    /\ pc[t] = "hs_wait"
    /\ UNCHANGED norm
    /\ UNCHANGED upstream
    /\ IF r = "exception"
       THEN Raise(t, "transport")
       ELSE LET token == Token(r, loc[t].session)
            IN  IF TokenOk(token)
                THEN /\ loc' = [loc EXCEPT ![t].headers =
                                  Some([Val(@) EXCEPT !.Authorization = token])]
                     /\ pc' = [pc EXCEPT ![t] = "profile"]
                     /\ UNCHANGED <<cache, lock, now, resp>>
                ELSE Raise(t, "Handshake failed or token missing")

\* lines 95-103: the get_profile request and its check
Profile(t, r) ==
    /\ pc[t] = "profile"
    /\ UNCHANGED norm
    /\ upstream' = [upstream EXCEPT !.profile = @ + 1]
    /\ IF r = "js"
       THEN /\ pc' = [pc EXCEPT ![t] = "catalog"]
            /\ UNCHANGED <<cache, lock, now, loc, resp>>
       ELSE Raise(t, IF r = "exception" THEN "transport"
                     ELSE "Profile validation failed")

\* lines 108-109: the channel list of a catalog answer; raises on a js field
\* that is no object (AttributeError) and on an undecodable body
\* (the data field of an answer, where there is one, is a list)
CatalogRaises(r) == r.kind \in {"exception", "jsnotobject"}
CatalogData(r) == IF r.kind = "data" THEN r.data ELSE <<>>

\* lines 105-111: the get_all_channels request
Catalog(t, r) ==
    /\ pc[t] = "catalog"
    /\ UNCHANGED norm
    /\ upstream' = [upstream EXCEPT !.catalog = @ + 1]
    /\ IF CatalogRaises(r)
       THEN Raise(t, IF r.kind = "exception" THEN "transport" ELSE "AttributeError")
       ELSE /\ loc' = [loc EXCEPT ![t].channels =
                         Some([by |-> Val(loc[t].session), data |-> CatalogData(r)])]
            /\ pc' = [pc EXCEPT ![t] = "update"]
            /\ UNCHANGED <<cache, lock, now, resp>>

\* an update that leaves the session key out
UpdatedCache_keepsSession(old, l, pname, time) ==
    [old EXCEPT !.headers = l.headers,
                !.channels = l.channels, !.portal_name = Some(pname),
                !.expires = time + CACHE_TTL]

\* an update that leaves the headers key out
UpdatedCache_noHeaders(old, l, pname, time) ==
    [old EXCEPT !.session = l.session,
                !.channels = l.channels, !.portal_name = Some(pname),
                !.expires = time + CACHE_TTL]

\* lines 120-126: _cache.update({...})
UpdatedCache(old, l, pname, time) ==
    [old EXCEPT !.session = l.session, !.headers = l.headers,
                !.channels = l.channels, !.portal_name = Some(pname),
                !.expires = time + CACHE_TTL]

CacheUpdate(t) ==
    /\ pc[t] = "update"
    /\ UNCHANGED norm
    /\ cache' = UpdatedCache(cache, loc[t],
                             normalize_url_and_name(PORTAL_BASE_URL).name, now)
    /\ lock' = NoThread
    /\ loc' = [loc EXCEPT ![t] = NoLocals]
    /\ pc' = [pc EXCEPT ![t] = "ret"]
    /\ UNCHANGED <<now, resp, upstream>>


\* -------------------------------------------------------------- handlers
\* what is kept of a thread's locals once its handler has returned: the
\* request it served, the last create_link answer and return value, and the
\* record of its create_link traffic
Returned(l) ==
    [NoLocals EXCEPT !.handler = l.handler, !.ch_id = l.ch_id, !.ch = l.ch,
                     !.reply = l.reply, !.link = l.link, !.log = l.log]

\* the handler of thread t, with locals l, returns the response r
Answer(t, l, r) ==
    /\ resp' = [resp EXCEPT ![t] = Some(r)]
    /\ loc' = [loc EXCEPT ![t] = Returned(l)]
    /\ pc' = [pc EXCEPT ![t] = "done"]

JsonError(code, err) ==
    [status |-> code, location |-> <<>>, error |-> err, body |-> <<>>]

\* lines 181-183: no URL is a 502, a URL is a 302 redirect to it
LinkResponse(real_url) ==
    IF real_url = None \/ Val(real_url) = <<>>
    THEN JsonError(502, "failed_to_create_link")
    ELSE [status |-> 302, location |-> Val(real_url), error |-> "", body |-> <<>>]

\* line 137: index after ensure_cache returned
Index(t) ==
    /\ pc[t] = "ret"
    /\ UNCHANGED norm
    /\ Answer(t, [loc[t] EXCEPT !.handler = "index"],
              [status |-> 200, location |-> <<>>, error |-> "", body |-> <<>>])
    /\ UNCHANGED <<cache, lock, now, upstream>>

\* lines 153-158: one playlist entry
PlaylistEntry(ch, base_url) ==
    [name |-> ch.name,
     logo |-> IF PORTAL_TYPE = "1"
              THEN base_url \o <<"/stalker_portal/misc/logos/320/", ch.logo>>
              ELSE <<ch.logo>>,
     link |-> <<"http://host", "/getlink/">> \o Str(ch.id)]

\* lines 147-160: playlist after ensure_cache returned; the generator reads
\* _cache["channels"] when the response is produced
Playlist(t) ==
    /\ pc[t] = "ret"
    /\ UNCHANGED norm
    /\ LET base_url == normalize_url_and_name(PORTAL_BASE_URL).url
           chans == Val(cache.channels).data
       IN  Answer(t, [loc[t] EXCEPT !.handler = "playlist"],
                  [status |-> 200, location |-> <<>>, error |-> "",
                      body |-> [i \in 1..Len(chans) |-> PlaylistEntry(chans[i], base_url)]])
    /\ UNCHANGED <<cache, lock, now, upstream>>

\* line 170: the first channel whose str(id) equals str(ch_id), or None
FindChannel(chans, ch_id) ==
    LET hits == { i \in 1..Len(chans) : Str(chans[i].id) = Str(ch_id) }
    IN  IF hits = {} THEN None
        ELSE Some(chans[CHOOSE i \in hits : \A j \in hits : i <= j])

\* a command taken as it is, blanks included
ChannelCmd_unstripped(ch) == ch.cmd

\* line 173: ch.get("cmd", "").strip()
ChannelCmd(ch) == Strip(ch.cmd)

\* line 176: the command is taken for a local stream
IsLocal(cmd) == Contains(cmd, FFMPEG)

\* line 178
LocalUrl(cmd) == Strip(Remove(cmd, FFMPEG_MARK))

\* lines 170-179: getlink after ensure_cache returned, up to the choice
\* between the local URL and create_link
GetlinkFind(t, ch_id) ==
    /\ pc[t] = "ret"
    /\ UNCHANGED norm
    /\ LET ch == FindChannel(Val(cache.channels).data, ch_id)
           cmd == IF ch = None THEN <<>> ELSE ChannelCmd(Val(ch))
           l == [loc[t] EXCEPT !.handler = "getlink", !.ch_id = ch_id,
                               !.ch = ch, !.ch_by = Val(cache.channels).by,
                               !.cmd = cmd]
       IN  IF ch = None
           THEN Answer(t, l, JsonError(404, "not_found"))
           ELSE IF cmd = <<>>
           THEN Answer(t, l, JsonError(400, "no_cmd"))
           ELSE IF IsLocal(cmd)
           THEN Answer(t, [l EXCEPT !.link = Some(LocalUrl(cmd))],
                       LinkResponse(Some(LocalUrl(cmd))))
           ELSE /\ loc' = [loc EXCEPT ![t] = l]
                /\ pc' = [pc EXCEPT ![t] = "read_session"]
                /\ UNCHANGED resp
    /\ UNCHANGED <<cache, lock, now, upstream>>

\* line 180: the argument _cache["session"]
GetlinkReadSession(t) ==
    /\ pc[t] = "read_session"
    /\ UNCHANGED norm
    /\ loc' = [loc EXCEPT ![t].arg_session = cache.session]
    /\ pc' = [pc EXCEPT ![t] = "read_headers"]
    /\ UNCHANGED <<cache, lock, now, resp, upstream>>

\* Python: s.rstrip("/")
RECURSIVE RStripSlash(_)
RStripSlash(s) ==
    IF s # <<>> /\ s[Len(s)] = "/" THEN RStripSlash(SubSeq(s, 1, Len(s) - 1)) ELSE s

\* line 55: the command create_link sends
LinkCommand(cmd) == Remove(Strip(cmd), FFRT_MARK)

\* line 180: the arguments PORTAL_BASE_URL.rstrip('/') and _cache["headers"]
\* and the call; lines 55-57
GetlinkReadHeaders(t) ==
    /\ pc[t] = "read_headers"
    /\ UNCHANGED norm
    /\ loc' = [loc EXCEPT ![t].arg_base = RStripSlash(PORTAL_BASE_URL),
                          ![t].arg_headers = cache.headers,
                          ![t].cmd = LinkCommand(loc[t].cmd),
                          ![t].attempt = 0]
    /\ pc' = [pc EXCEPT ![t] = "attempt"]
    /\ UNCHANGED <<cache, lock, now, resp, upstream>>

\* ----------------------------------------------------------- create_link
\* a loop that runs once more than range(retries)
MoreAttempts_offByOne(attempt) == attempt <= retries

\* line 58: for attempt in range(retries)
MoreAttempts(attempt) == attempt < retries

\* a return value that keeps the marker
CleanLink_raw(cmd) == cmd

\* line 65: the value create_link returns for a usable cmd
CleanLink(cmd) == Strip(Remove(cmd, FFRT_MARK))

\* lines 58-68: one pass of the loop, the GET and what follows its answer
CreateLinkAttempt(t, r) ==
    /\ pc[t] = "attempt"
    /\ UNCHANGED norm
    /\ MoreAttempts(loc[t].attempt)
    /\ upstream' = [upstream EXCEPT !.create_link = @ + 1]
    /\ LET l == [loc[t] EXCEPT !.attempt = @ + 1, !.reply = Some(r),
                               !.log = Append(@, "get")]
       IN  CASE r.kind = "exception" ->
                  /\ loc' = [loc EXCEPT ![t] = l]
                  /\ pc' = [pc EXCEPT ![t] = "sleep"]
                  /\ UNCHANGED resp
             [] r.kind \in {"status", "nocmd"} ->
                  /\ loc' = [loc EXCEPT ![t] = l]
                  /\ UNCHANGED <<pc, resp>>
             [] r.kind = "cmd" ->
                  Answer(t, [l EXCEPT !.link = Some(CleanLink(r.cmd))],
                         LinkResponse(Some(CleanLink(r.cmd))))
    /\ UNCHANGED <<cache, lock, now>>

\* line 67: time.sleep(0.5) in the except clause
CreateLinkSleep(t) ==
    /\ pc[t] = "sleep"
    /\ UNCHANGED norm
    /\ loc' = [loc EXCEPT ![t].log = Append(@, "sleep")]
    /\ pc' = [pc EXCEPT ![t] = "attempt"]
    /\ UNCHANGED <<cache, lock, now, resp, upstream>>

\* a create_link that marks the cache expired when it gives up
CreateLinkExhausted_invalidating(t) ==
    /\ pc[t] = "attempt"
    /\ UNCHANGED norm
    /\ ~MoreAttempts(loc[t].attempt)
    /\ Answer(t, loc[t], LinkResponse(None))
    /\ cache' = [cache EXCEPT !.expires = 0]
    /\ UNCHANGED <<lock, now, upstream>>

\* line 69 and lines 181-182: the loop ran out, create_link returns None
CreateLinkExhausted(t) ==
    /\ pc[t] = "attempt"
    /\ UNCHANGED norm
    /\ ~MoreAttempts(loc[t].attempt)
    /\ Answer(t, loc[t], LinkResponse(None))
    /\ UNCHANGED <<cache, lock, now, upstream>>

\* ------------------------------------------------------------------ time
\* The clock moves by a second or by a whole TTL, MaxTicks times at most.
Ticks(time) == (time \div CACHE_TTL) + (time % CACHE_TTL)

Tick(d) ==
    /\ Ticks(now) < MaxTicks
    /\ now' = now + d
    /\ UNCHANGED <<cache, lock, pc, loc, resp, upstream, norm>>

Next ==
    \/ \E t \in Threads : EnsureCacheEnter(t)
    \/ \E t \in Threads, r \in HandshakeReplies : Handshake(t, r)
    \/ \E t \in Threads, r \in ProfileReplies : Profile(t, r)
    \/ \E t \in Threads, r \in CatalogReplies : Catalog(t, r)
    \/ \E t \in Threads : CacheUpdate(t)
    \/ \E t \in Threads : Index(t)
    \/ \E t \in Threads : Playlist(t)
    \/ \E t \in Threads, ch_id \in RequestIds : GetlinkFind(t, ch_id)
    \/ \E t \in Threads : GetlinkReadSession(t)
    \/ \E t \in Threads : GetlinkReadHeaders(t)
    \/ \E t \in Threads, r \in LinkReplies : CreateLinkAttempt(t, r)
    \/ \E t \in Threads : CreateLinkSleep(t)
    \/ \E t \in Threads : CreateLinkExhausted(t)
    \/ \E d \in {1, CACHE_TTL} : Tick(d)

Spec == Init /\ [][Next]_vars

\* Requests that only need the cache: index and playlist.
NextRefresh ==
    \/ \E t \in Threads : EnsureCacheEnter(t)
    \/ \E t \in Threads, r \in HandshakeReplies : Handshake(t, r)
    \/ \E t \in Threads, r \in ProfileReplies : Profile(t, r)
    \/ \E t \in Threads, r \in CatalogReplies : Catalog(t, r)
    \/ \E t \in Threads : CacheUpdate(t)
    \/ \E t \in Threads : Index(t)
    \/ \E t \in Threads : Playlist(t)
    \/ \E d \in {1, CACHE_TTL} : Tick(d)

SpecRefresh == Init /\ [][NextRefresh]_vars

\* getlink requests against an upstream that completes every session
\* acquisition with a non-empty catalog.
NextLink ==
    \/ \E t \in Threads : EnsureCacheEnter(t)
    \/ \E t \in Threads : Handshake(t, "token")
    \/ \E t \in Threads : Profile(t, "js")
    \/ \E t \in Threads, c \in {NewsCatalog, FullCatalog} :
            Catalog(t, [kind |-> "data", data |-> c])
    \/ \E t \in Threads : CacheUpdate(t)
    \/ \E t \in Threads, ch_id \in RequestIds : GetlinkFind(t, ch_id)
    \/ \E t \in Threads : GetlinkReadSession(t)
    \/ \E t \in Threads : GetlinkReadHeaders(t)
    \/ \E t \in Threads, r \in LinkReplies : CreateLinkAttempt(t, r)
    \/ \E t \in Threads : CreateLinkSleep(t)
    \/ \E t \in Threads : CreateLinkExhausted(t)

SpecLink == Init /\ [][NextLink]_vars

\* The end-to-end scenario: the upstream answers the handshake with a token,
\* the profile request with a body containing "js" and the catalog request
\* with the one channel News; create_link answers are left open.
NextE2E ==
    \/ \E t \in Threads : EnsureCacheEnter(t)
    \/ \E t \in Threads : Handshake(t, "token")
    \/ \E t \in Threads : Profile(t, "js")
    \/ \E t \in Threads : Catalog(t, [kind |-> "data", data |-> NewsCatalog])
    \/ \E t \in Threads : CacheUpdate(t)
    \/ \E t \in Threads : Index(t)
    \/ \E t \in Threads : Playlist(t)
    \/ \E t \in Threads : GetlinkFind(t, News.id)
    \/ \E t \in Threads : GetlinkReadSession(t)
    \/ \E t \in Threads : GetlinkReadHeaders(t)
    \/ \E t \in Threads, r \in LinkReplies : CreateLinkAttempt(t, r)
    \/ \E t \in Threads : CreateLinkSleep(t)
    \/ \E t \in Threads : CreateLinkExhausted(t)

SpecE2E == Init /\ [][NextE2E]_vars

\* All three handlers against an upstream that can fail the handshake and the
\* profile request and answers the catalog request with channels, while the cache expires once per CACHE_TTL. The first
\* request is a getlink, the others ask for the index or the playlist.
GetlinkThreads == {1}

NextServe ==
    \/ \E t \in Threads : EnsureCacheEnter(t)
    \/ \E t \in Threads, r \in HandshakeReplies : Handshake(t, r)
    \/ \E t \in Threads, r \in ProfileReplies : Profile(t, r)
    \/ \E t \in Threads, c \in {NewsCatalog, FullCatalog} :
            Catalog(t, [kind |-> "data", data |-> c])
    \/ \E t \in Threads : CacheUpdate(t)
    \/ \E t \in Threads \ GetlinkThreads : Index(t)
    \/ \E t \in Threads \ GetlinkThreads : Playlist(t)
    \/ \E t \in GetlinkThreads, ch_id \in RequestIds : GetlinkFind(t, ch_id)
    \/ \E t \in Threads : GetlinkReadSession(t)
    \/ \E t \in Threads : GetlinkReadHeaders(t)
    \/ \E t \in Threads, r \in LinkReplies : CreateLinkAttempt(t, r)
    \/ \E t \in Threads : CreateLinkSleep(t)
    \/ \E t \in Threads : CreateLinkExhausted(t)
    \/ Tick(CACHE_TTL)

SpecServe == Init /\ [][NextServe]_vars

\* Calls of ensure_cache under a scheduler that lets every thread run
\* and an upstream whose every request returns or times out (the requests
\* carry timeout=10 and timeout=15, lines 88, 101 and 107): a thread that can
\* take the lock, receive an answer or a timeout, or store its result does so
\* in the end.
EnsureCacheStep(t) ==
    \/ EnsureCacheEnter(t)
    \/ \E r \in HandshakeReplies : Handshake(t, r)
    \/ \E r \in ProfileReplies : Profile(t, r)
    \/ \E r \in CatalogReplies : Catalog(t, r)
    \/ CacheUpdate(t)

Fairness == \A t \in Threads : WF_vars(EnsureCacheStep(t))

NextLive ==
    \/ \E t \in Threads : EnsureCacheEnter(t)
    \/ \E t \in Threads, r \in HandshakeReplies : Handshake(t, r)
    \/ \E t \in Threads, r \in ProfileReplies : Profile(t, r)
    \/ \E t \in Threads, r \in CatalogReplies : Catalog(t, r)
    \/ \E t \in Threads : CacheUpdate(t)

SpecLive == Init /\ [][NextLive]_vars /\ Fairness

\* Calls of the normalizer on each input, outside any request.
InitNormalize ==
    /\ cache = EmptyCache
    /\ lock = NoThread
    /\ now = 0
    /\ pc = [t \in Threads |-> "ensure"]
    /\ loc = [t \in Threads |-> NoLocals]
    /\ resp = [t \in Threads |-> None]
    /\ upstream = [handshake |-> 0, profile |-> 0, catalog |-> 0, create_link |-> 0]
    /\ \E x \in UrlInputs : norm = [input_url |-> x, out |-> None, again |-> None]

NextNormalize ==
    \/ NormalizeCall
    \/ NormalizeAgain

SpecNormalize == InitNormalize /\ [][NextNormalize]_vars


\* ================================================================ claims
\* a handshake sequence of thread t is in flight: its handshake request has
\* been sent and its catalog request has not yet been answered
InFlight(t) == pc[t] \in {"hs_wait", "profile", "catalog"}

\* thread t is inside ensure_cache
InEnsure(t) == pc[t] \in {"ensure", "hs_wait", "profile", "catalog", "update"}

\* C1: in every reachable state at most one thread has a handshake sequence
\* (handshake, profile, catalog requests) in flight.
C1_OneSequenceInFlight ==
    Cardinality({ t \in Threads : InFlight(t) }) <= 1

\* C1 witness: one thread is about to fetch the catalog while another thread
\* has called ensure_cache and waits for the lock.
C1_Witness ==
    \E t, u \in Threads : t # u /\ pc[t] = "catalog" /\ pc[u] = "ensure" /\ lock = t

\* C2: when all threads called ensure_cache together on the empty cache (no
\* time has passed since) and all of them are out of ensure_cache again, the
\* upstream has seen exactly one handshake.
C2_ExactlyOneHandshake ==
    (now = 0 /\ \A t \in Threads : ~InEnsure(t)) => upstream.handshake = 1

\* C3: once a refresh has been stored, no thread starts a handshake before
\* the stored expiry time: no handshake is in flight while the cache holds a
\* stored refresh whose expiry time is still ahead.
C3_NoRequestBeforeExpiry ==
    \A t \in Threads :
        (pc[t] = "hs_wait" /\ cache.session # None) => ~(now < cache.expires)

\* C4: while a thread holds the lock for a refresh, no step but its final
\* cache update changes any of the five cache fields, and the step in which
\* the refresh fails releases the lock and hands the error to the caller
\* (the handler answers with the error text).
C4_FailedRefreshKeepsCache ==
    [][ \A t \in Threads :
          lock = t =>
            /\ (pc[t] # "update" => cache' = cache)
            /\ (pc'[t] = "done" =>
                  /\ cache' = cache
                  /\ lock' = NoThread
                  /\ resp'[t] # None
                  /\ Val(resp'[t]).error \in
                        {"transport", "Handshake failed or token missing",
                         "Profile validation failed", "AttributeError"}) ]_vars

\* C4 witness: a refresh failed after an earlier refresh had been stored, and
\* the cache still holds what the earlier refresh stored.
C4_Witness ==
    \E t \in Threads :
        /\ pc[t] = "done" /\ resp[t] # None /\ Val(resp[t]).status = 500
        /\ upstream.handshake = 2
        /\ cache.session = Some(1)
        /\ cache.headers # None /\ Val(cache.headers).Authorization = Some(1)
        /\ cache.channels # None /\ Val(cache.channels).by = 1
        /\ cache.expires = CACHE_TTL

InCreateLink(t) == pc[t] \in {"attempt", "sleep"}

\* the number of create_link requests in a thread's record
Gets(log) == Cardinality({ i \in 1..Len(log) : log[i] = "get" })

\* C6: within one getlink request the session and the headers handed to
\* create_link come from the handshake sequence that produced the channel
\* list the handler read its channel from.
C6_SameGeneration ==
    \A t \in Threads :
        InCreateLink(t) =>
            /\ loc[t].arg_session = Some(loc[t].ch_by)
            /\ loc[t].arg_headers # None
            /\ Val(loc[t].arg_headers).Authorization = Some(loc[t].ch_by)

\* the answered cmd without its "ffrt " marker, written out
C7_Expected(cmd) ==
    CASE cmd = <<"ffrt", " ", "http://n/play">> -> <<"http://n/play">>
      [] cmd = <<"http://cdn/live">> -> <<"http://cdn/live">>
      [] cmd = <<"ffrt", " ">> -> <<>>

\* C7: create_link never sends more than `retries` requests; a call whose
\* last answer carried no usable cmd returned None after exactly `retries`
\* requests; a call whose last answer carried a usable cmd returned that cmd
\* (marker stripped) right after that request.
C7_BoundedRetries ==
    \A t \in Threads :
        /\ Gets(loc[t].log) <= retries
        /\ InCreateLink(t) => loc[t].attempt = Gets(loc[t].log)
        /\ (pc[t] = "done" /\ loc[t].reply # None) =>
              IF Val(loc[t].reply).kind = "cmd"
              THEN /\ loc[t].link = Some(C7_Expected(Val(loc[t].reply).cmd))
                   /\ loc[t].log[Len(loc[t].log)] = "get"
              ELSE /\ loc[t].link = None
                   /\ Gets(loc[t].log) = retries

\* C7 witness: one call ran out of attempts after a transport failure and two
\* other failures, another call succeeded on its second attempt.
C7_Witness ==
    \E t, u \in Threads :
        /\ pc[t] = "done" /\ loc[t].link = None
        /\ loc[t].log = <<"get", "sleep", "get", "get">>
        /\ Val(resp[t]).status = 502
        /\ pc[u] = "done" /\ loc[u].link = Some(<<"http://n/play">>)
        /\ Gets(loc[u].log) = 2

\* C8: a thread that is about to send a further create_link request, after
\* an attempt that failed with a transport failure or with a non-200 status,
\* has waited since that attempt.
C8_BackoffBetweenAttempts ==
    \A t \in Threads :
        (/\ pc[t] = "attempt" /\ loc[t].reply # None
         /\ MoreAttempts(loc[t].attempt)
         /\ Val(loc[t].reply).kind \in {"exception", "status"}) =>
            loc[t].log[Len(loc[t].log)] = "sleep"

\* the command is the marker "ffmpeg " followed by a URL
C9_Marked(cmd) == Len(cmd) >= 3 /\ cmd[1] = "ffmpeg" /\ cmd[2] = " "

\* C9: a getlink request for a channel with a non-empty command ends, for a
\* marked command, in a redirect to the command without its marker and
\* without any create_link request, and for every other command it has sent
\* create_link requests.
C9_LocalOrNegotiated ==
    \A t \in Threads :
        (/\ pc[t] = "done" /\ loc[t].handler = "getlink"
         /\ loc[t].ch # None /\ Strip(Val(loc[t].ch).cmd) # <<>>) =>
            LET cmd == Strip(Val(loc[t].ch).cmd)
            IN  IF C9_Marked(cmd)
                THEN /\ loc[t].log = <<>>
                     /\ Val(resp[t]).status = 302
                     /\ Val(resp[t]).location = SubSeq(cmd, 3, Len(cmd))
                ELSE loc[t].log # <<>>

\* the playlist answer lists channel 5 as "News" with the local path
C10_PlaylistHasNews(r) ==
    /\ r.status = 200
    /\ \E i \in 1..Len(r.body) :
          /\ r.body[i].name = "News"
          /\ r.body[i].link = <<"http://host", "/getlink/", 5>>

\* C10 as claimed: in the end-to-end scenario every playlist answer lists
\* News with /getlink/5 and every getlink request for channel 5 ends in a
\* redirect to http://n/play.
C10_EndToEnd ==
    \A t \in Threads :
        pc[t] = "done" =>
            /\ loc[t].handler = "playlist" => C10_PlaylistHasNews(Val(resp[t]))
            /\ (loc[t].handler = "getlink" /\ loc[t].ch_id = 5) =>
                  /\ Val(resp[t]).status = 302
                  /\ Val(resp[t]).location = <<"http://n/play">>

\* C10 amended: in the end-to-end scenario every playlist answer lists News
\* with /getlink/5, and every getlink request for channel 5 sends one to
\* three create_link requests and ends in a redirect to http://n/play when
\* the last of them was answered with cmd "ffrt http://n/play", in a
\* redirect to the answered URL when it was answered with another URL, and
\* in a 502 when no attempt was answered with a non-empty cmd.
C10_EndToEndAmended ==
    \A t \in Threads :
        pc[t] = "done" =>
            /\ loc[t].handler = "playlist" => C10_PlaylistHasNews(Val(resp[t]))
            /\ (loc[t].handler = "getlink" /\ loc[t].ch_id = 5) =>
                  /\ loc[t].reply # None
                  /\ Gets(loc[t].log) \in 1..retries
                  /\ LET r == Val(loc[t].reply)
                     IN  CASE r.kind = "cmd" /\ r.cmd = <<"ffrt", " ", "http://n/play">> ->
                                /\ Val(resp[t]).status = 302
                                /\ Val(resp[t]).location = <<"http://n/play">>
                           [] r.kind = "cmd" /\ r.cmd = <<"http://cdn/live">> ->
                                /\ Val(resp[t]).status = 302
                                /\ Val(resp[t]).location = <<"http://cdn/live">>
                           [] OTHER -> Val(resp[t]).status = 502

\* C10 witness: a playlist answer listing News has been given and a getlink
\* request for channel 5 ended in the redirect to http://n/play.
C10_Witness ==
    \E t, u \in Threads :
        /\ pc[t] = "done" /\ loc[t].handler = "playlist"
        /\ C10_PlaylistHasNews(Val(resp[t]))
        /\ pc[u] = "done" /\ loc[u].handler = "getlink" /\ loc[u].ch_id = 5
        /\ Val(resp[u]).status = 302
        /\ Val(resp[u]).location = <<"http://n/play">>


\* the ids of the channels in the cached catalog
CachedIds == { Val(cache.channels).data[i].id : i \in 1..Len(Val(cache.channels).data) }

\* the cached channels with a given id
CachedWithId(id) ==
    { Val(cache.channels).data[i] : i \in { j \in 1..Len(Val(cache.channels).data) :
                                              Val(cache.channels).data[j].id = id } }

\* the command is empty or consists of blanks
C11_BlankCmd(cmd) == \A i \in 1..Len(cmd) : cmd[i] = " "

\* C11: with the catalog of the one refresh in the cache, a finished getlink
\* request for an id that is not in the cached catalog was answered 404, one
\* for an id whose cached command is empty or blank was answered 400, and
\* neither sent a create_link request.
C11_NotFoundBadRequest ==
    \A t \in Threads :
        (pc[t] = "done" /\ loc[t].handler = "getlink") =>
            /\ loc[t].ch_id \notin CachedIds =>
                  /\ Val(resp[t]).status = 404
                  /\ loc[t].log = <<>> /\ loc[t].reply = None
            /\ (\E c \in CachedWithId(loc[t].ch_id) : C11_BlankCmd(c.cmd)) =>
                  /\ Val(resp[t]).status = 400
                  /\ loc[t].log = <<>> /\ loc[t].reply = None

\* C11 witness: with the full catalog cached, requests for the absent id 9,
\* for the blank command of id 8 and for the empty command of id 4 have been
\* answered 404, 400 and 400.
C11_Witness ==
    /\ cache.channels # None /\ Val(cache.channels).data = FullCatalog
    /\ \E t, u \in Threads :
          /\ pc[t] = "done" /\ loc[t].ch_id = 9 /\ Val(resp[t]).status = 404
          /\ pc[u] = "done" /\ loc[u].ch_id \in {4, 8} /\ Val(resp[u]).status = 400


\* thread t is in a handler's body, after ensure_cache returned
InHandlerBody(t) ==
    pc[t] \in {"ret", "read_session", "read_headers", "attempt", "sleep"}

C13_CatalogNeverFails ==
    [][\A t \in Threads :
          /\ (pc[t] = "catalog" /\ pc'[t] # "catalog") =>
                \/ /\ pc'[t] = "update"
                   /\ loc'[t].channels # None
                \/ /\ pc'[t] = "done"
                   /\ Val(resp'[t]).error = "transport"
          /\ (pc[t] = "update" /\ pc'[t] # "update") =>
                /\ cache'.channels = loc[t].channels
                /\ cache'.expires = now + CACHE_TTL
      ]_vars


\* C14: every step a request takes in its handler's body (the catalog
\* lookup, the reads of the cached session and headers, each create_link
\* attempt with any answer, each backoff, the final answer) leaves all five
\* cache fields, the cached headers' contents included, as they were.
C14_ResolutionKeepsCache ==
    [][\A t \in Threads :
          (InHandlerBody(t) /\ (pc'[t] # pc[t] \/ loc'[t] # loc[t])) =>
              /\ cache'.session = cache.session
              /\ cache'.headers = cache.headers
              /\ cache'.channels = cache.channels
              /\ cache'.portal_name = cache.portal_name
              /\ cache'.expires = cache.expires
      ]_vars

\* C14 witness: a getlink request ran out of retries, one attempt answered
\* with a non-200 status and one with an exception, and the cache is still
\* the one a refresh stored.
C14_Witness ==
    \E t \in Threads :
        /\ pc[t] = "done" /\ loc[t].handler = "getlink"
        /\ Val(resp[t]).status = 502
        /\ Gets(loc[t].log) = retries
        /\ \E i \in 1..Len(loc[t].log) : loc[t].log[i] = "sleep"
        /\ Val(loc[t].reply).kind = "status"
        /\ cache.channels # None /\ cache.session # None /\ cache.expires > 0


\* the input with the default scheme put in front where it has none
C15_WithScheme(x) ==
    IF HasScheme(Strip(x)) THEN Strip(x) ELSE <<"http://">> \o Strip(x)

\* the input names a host or a port: its netloc is not empty
C15_HasHost(x) == Netloc(C15_WithScheme(x)) # <<>>

\* C15: for every input that names a host (bare host, host:port, URL with or
\* without a path or a query, with or without a scheme), the normalizer
\* applied to the base URL it returned gives the same base URL and the same
\* short name.
C15_Idempotent ==
    (norm.again # None /\ C15_HasHost(norm.input_url)) => norm.again = norm.out

\* C15 witness: a full URL with a path and a port, whose host has capitals,
\* was normalized twice, and the first call did cut the input.
C15_Witness ==
    /\ norm.again # None
    /\ norm.input_url = <<"https://", "Example", ".", "COM", ":", "8080", "/", "a", "/", "b">>
    /\ Val(norm.out).url = <<"https://", "Example", ".", "COM", ":", "8080">>
    /\ Val(norm.out).name = <<"example", "com", ":", "8080">>
    /\ Val(norm.again) = Val(norm.out)


C17_RefreshAndTimeOnly ==
    [][/\ cache'.expires # cache.expires =>
            \E t \in Threads :
                /\ pc[t] = "update" /\ lock = t
                /\ pc'[t] = "ret"
                /\ cache'.expires = now + CACHE_TTL
       /\ (\E t \in Threads : pc[t] = "update" /\ pc'[t] # "update") =>
            cache'.expires = now + CACHE_TTL
       /\ (CacheFresh /\ ~CacheFresh') => (now' > now /\ cache' = cache)
       /\ cache # EmptyCache =>
            /\ cache'.session # None /\ cache'.headers # None
            /\ cache'.channels # None /\ cache'.portal_name # None
            /\ cache'.expires > 0
      ]_vars

\* C17 witness: after the clock moved by a whole TTL the second acquisition
\* filled the cache and set the expiry to now + CACHE_TTL.
C17_Witness ==
    /\ now = CACHE_TTL
    /\ upstream.handshake = 2
    /\ cache.expires = now + CACHE_TTL
    /\ CacheFresh


\* C18: every request that calls ensure_cache gets out of it in the end, by
\* a return or by an exception, whatever the upstream answers, and a thread
\* that is out of ensure_cache does not hold the lock.
C18_EnsureCacheTerminates ==
    /\ \A t \in Threads : (pc[t] = "ensure") ~> (~InEnsure(t) /\ lock # t)
    /\ [](\A t \in Threads : ~InEnsure(t) => lock # t)

\* C18 witness: a refresh has failed, and a thread that was waiting holds
\* the lock and runs its own handshake.
C18_Witness ==
    \E t, u \in Threads :
        /\ pc[t] = "done" /\ Val(resp[t]).status = 500
        /\ pc[u] = "hs_wait" /\ lock = u
        /\ upstream.handshake = 2


\* C19: while a request is in create_link, the base URL it was given is the
\* base URL of the session acquisition whose headers it was given: the
\* Referer of those headers is that base URL followed by /stalker_portal/c/.
C19_SameBaseUrl ==
    \A t \in Threads :
        InCreateLink(t) =>
            /\ loc[t].arg_base = normalize_url_and_name(PORTAL_BASE_URL).url
            /\ Val(loc[t].arg_headers).Referer =
                  loc[t].arg_base \o <<"/", "stalker_portal", "/", "c", "/">>


\* C20: whenever the cached channel list is not empty the cached session
\* and the cached headers are set, and a request that is in create_link was
\* given a session and headers, under every interleaving with refreshes.
C20_SessionWithChannels ==
    /\ Truthy(cache.channels) => (cache.session # None /\ cache.headers # None)
    /\ \A t \in Threads :
          InCreateLink(t) => (loc[t].arg_session # None /\ loc[t].arg_headers # None)

\* C20 witness: a getlink request read the session of the first
\* acquisition, a refresh replaced the cache, and the request went into
\* create_link with the headers of the second acquisition.
C20_Witness ==
    \E t \in Threads :
        /\ pc[t] = "attempt" /\ loc[t].attempt >= 1
        /\ loc[t].arg_session = Some(1)
        /\ Val(loc[t].arg_headers).Authorization = Some(2)
        /\ Truthy(cache.channels) /\ cache.session = Some(2)

====
